---------------------------- MODULE Spec2Model ----------------------------
(***************************************************************************)
(* Model of the macros avec!, count! and dict! of src/src/lib.rs.          *)
(*                                                                         *)
(* A macro invocation is a token sequence.  Expansion matches the rules of *)
(* the macro in textual order and transcribes the body of the first rule   *)
(* that matches; the transcribed block is a list of statements which is    *)
(* then executed one statement at a time, the arguments of each statement  *)
(* being evaluated left to right before the call itself.                   *)
(*                                                                         *)
(* Element expressions are drawn from literals and from `tick`, an         *)
(* expression with an observable side effect: it returns the value of a    *)
(* counter and increments it.                                              *)
(***************************************************************************)
EXTENDS Integers, Sequences, FiniteSets

\* ---- bounds of the model -------------------------------------------------
MaxLen == 3        \* most elements of a list literal
MaxPairs == 2      \* most pairs of a map literal
MaxCount == 3      \* largest literal repeat count
MaxLit == 2        \* literal element expressions are 1..MaxLit
MaxCtr == 1        \* the counter read by `tick` starts in 0..MaxCtr

\* ---- tokens and expressions ----------------------------------------------
Lit(n) == [k |-> "lit", v |-> n]
Tick == [k |-> "tick", v |-> 0]
Unit == [k |-> "unit", v |-> 0]
Var(name) == [k |-> name, v |-> 0]
Comma == [k |-> "comma", v |-> 0]
Semi == [k |-> "semi", v |-> 0]
Arrow == [k |-> "arrow", v |-> 0]

\* the token is a caller-supplied expression ($x:expr)
IsExpr(t) == t.k \in {"lit", "tick"}

ElemExprs == {Lit(n) : n \in 1..MaxLit} \cup {Tick}
CountExprs == {Lit(n) : n \in 0..MaxCount} \cup {Tick}

Max(a, b) == IF a >= b THEN a ELSE b

\* ---- macro matchers -------------------------------------------------------
\* $($element:expr),*
MatchSep(toks) ==
    \/ Len(toks) = 0
    \/ /\ Len(toks) % 2 = 1
       /\ \A i \in 1..Len(toks) :
            IF i % 2 = 1 THEN IsExpr(toks[i]) ELSE toks[i] = Comma

\* $($element:expr,)*
MatchTrail(toks) ==
    /\ Len(toks) % 2 = 0
    /\ \A i \in 1..Len(toks) :
         IF i % 2 = 1 THEN IsExpr(toks[i]) ELSE toks[i] = Comma

\* $element:expr; $count:expr
MatchRepeat(toks) ==
    /\ Len(toks) = 3
    /\ IsExpr(toks[1])
    /\ toks[2] = Semi
    /\ IsExpr(toks[3])

\* $($key:expr => $val:expr),*
MatchPairsSep(toks) ==
    \/ Len(toks) = 0
    \/ /\ Len(toks) % 4 = 3
       /\ \A i \in 1..Len(toks) :
            CASE i % 4 = 2 -> toks[i] = Arrow
              [] i % 4 = 0 -> toks[i] = Comma
              [] OTHER -> IsExpr(toks[i])

\* $($key:expr => $val:expr,)*
MatchPairsTrail(toks) ==
    /\ Len(toks) % 4 = 0
    /\ \A i \in 1..Len(toks) :
         CASE i % 4 = 2 -> toks[i] = Arrow
           [] i % 4 = 0 -> toks[i] = Comma
           [] OTHER -> IsExpr(toks[i])

\* the fragments a repetition binds, in order
Bound(toks) == SelectSeq(toks, IsExpr)
Keys(toks) == [i \in 1..(Len(Bound(toks)) \div 2) |-> Bound(toks)[2 * i - 1]]
Vals(toks) == [i \in 1..(Len(Bound(toks)) \div 2) |-> Bound(toks)[2 * i]]

\* transcription of $($element),*
JoinComma(es) ==
    [i \in 1..(2 * Len(es) - 1) |-> IF i % 2 = 1 THEN es[(i + 1) \div 2] ELSE Comma]

\* transcription of $($key => $val),*
JoinPairs(ks, vs0) ==
    [i \in 1..(4 * Len(ks) - 1) |->
        CASE i % 4 = 1 -> ks[(i + 3) \div 4]
          [] i % 4 = 2 -> Arrow
          [] i % 4 = 3 -> vs0[(i + 1) \div 4]
          [] OTHER -> Comma]

Stmt(op, args) == [op |-> op, args |-> args]

\* ---- count! ---------------------------------------------------------------
SUBST_keep(e) == e

\* (@SUBST; $_element:expr) => { () }
SUBST(e) == Unit

\* ($($element:expr),*) => <[()]>::len(&[$(count![@SUBST; $element]),*])
\* the array expression whose length is taken
count(toks) ==
    [i \in 1..Len(Bound(toks)) |-> SUBST(Bound(toks)[i])]

\* ---- avec! ----------------------------------------------------------------
AvecListBody_rev(es) ==
    <<Stmt("const", count(JoinComma(es))),
      Stmt("Vec::with_capacity", <<Var("ELEM_COUNT")>>)>>
    \o [i \in 1..Len(es) |-> Stmt("push", <<es[Len(es) + 1 - i]>>)]
    \o <<Stmt("ret", <<>>)>>

AvecListBody_skip(es) ==
    <<Stmt("const", count(JoinComma(es))),
      Stmt("Vec::with_capacity", <<Var("ELEM_COUNT")>>)>>
    \o [i \in 1..(Len(es) - 1) |-> Stmt("push", <<es[i + 1]>>)]
    \o <<Stmt("ret", <<>>)>>

AvecListBody_new(es) ==
    <<Stmt("const", count(JoinComma(es))),
      Stmt("Vec::with_capacity", <<Lit(0)>>)>>
    \o [i \in 1..Len(es) |-> Stmt("push", <<es[i]>>)]
    \o <<Stmt("ret", <<>>)>>

\* rule 1: const ELEM_COUNT = count![..]; let mut vs = Vec::with_capacity(ELEM_COUNT);
\*         $(vs.push($element);)* vs
AvecListBody(es) ==
    <<Stmt("const", count(JoinComma(es))),
      Stmt("Vec::with_capacity", <<Var("ELEM_COUNT")>>)>>
    \o [i \in 1..Len(es) |-> Stmt("push", <<es[i]>>)]
    \o <<Stmt("ret", <<>>)>>

AvecTrailing_drop(es) == JoinComma(SubSeq(es, 1, Len(es) - 1))

\* rule 2: $crate::avec![$($element),*]
AvecTrailing(es) == JoinComma(es)

AvecRepeatBody_inline(e, c) ==
    <<Stmt("Vec::with_capacity", <<c>>),
      Stmt("resize", <<c, e>>),
      Stmt("ret", <<>>)>>

AvecRepeatBody_noalloc(e, c) ==
    <<Stmt("let count", <<c>>),
      Stmt("resize", <<Var("count"), e>>),
      Stmt("ret", <<>>)>>

\* rule 3: let count = $count; let mut vs = Vec::with_capacity(count);
\*         vs.resize(count, $element); vs
AvecRepeatBody(e, c) ==
    <<Stmt("let count", <<c>>),
      Stmt("Vec::with_capacity", <<Var("count")>>),
      Stmt("resize", <<Var("count"), e>>),
      Stmt("ret", <<>>)>>

\* ---- dict! ----------------------------------------------------------------
DictBody_swap(ks, vs0) ==
    <<Stmt("const", count(JoinComma(ks))),
      Stmt("HashMap::with_capacity", <<Var("ELEM_COUNT")>>)>>
    \o [i \in 1..Len(ks) |-> Stmt("insert", <<vs0[i], ks[i]>>)]
    \o <<Stmt("ret", <<>>)>>

\* rule 1: const ELEM_COUNT = count![$($key),*];
\*         let mut hm = HashMap::with_capacity(ELEM_COUNT);
\*         $(hm.insert($key, $val);)* hm
DictBody(ks, vs0) ==
    <<Stmt("const", count(JoinComma(ks))),
      Stmt("HashMap::with_capacity", <<Var("ELEM_COUNT")>>)>>
    \o [i \in 1..Len(ks) |-> Stmt("insert", <<ks[i], vs0[i]>>)]
    \o <<Stmt("ret", <<>>)>>

\* rule 2: $crate::dict![$($key => $val),*]
DictTrailing(ks, vs0) == JoinPairs(ks, vs0)

\* ---- the containers' operations the emitted code calls ---------------------
\* Vec::with_capacity(n), elements with a size (the tests' Vec<u32>): exactly n
VecWithCapacity(n) == n

RECURSIVE NextPowerOfTwo(_, _)
NextPowerOfTwo(p, n) == IF p >= n THEN p ELSE NextPowerOfTwo(2 * p, n)

\* HashMap::with_capacity(n): room for at least n entries.  The table has a power
\* of two of buckets (4 at least) and is full at 7/8 of them (at all but one of
\* them when there are fewer than 8); n = 0 allocates nothing.
HashMapWithCapacity(n) ==
    IF n = 0 THEN 0
    ELSE IF n < 4 THEN 3
    ELSE IF n < 8 THEN 7
    ELSE (NextPowerOfTwo(1, (n * 8) \div 7) \div 8) * 7

\* capacity after making room for `extra` more elements
Grown(c, len, extra) == IF c - len >= extra THEN c ELSE Max(2 * c, len + extra)

VecPush(s, x) == Append(s, x)

VecResize_short(n, x) == [i \in 1..(n - 1) |-> x]

\* vs.resize(count, value) on the empty vector: count copies of the one value
VecResize(n, x) == [i \in 1..n |-> x]

HashMapInsert_keep(m, key, val) ==
    [x \in DOMAIN m \cup {key} |-> IF x \in DOMAIN m THEN m[x] ELSE val]

\* hm.insert(key, val): a later insertion overrides the value of an equal key
HashMapInsert(m, key, val) ==
    [x \in DOMAIN m \cup {key} |-> IF x = key THEN val ELSE m[x]]

EmptyMap == [x \in {} |-> 0]

\* ---- state ------------------------------------------------------------------
VARIABLES
    lit,         \* the invocation as written: [mac, toks]
    inv,         \* the invocation being expanded
    pc,          \* "expand", "run" or "done"
    body,        \* statements of the emitted block still to execute
    argv,        \* values of the arguments of Head(body) evaluated so far
    ELEM_COUNT,  \* const ELEM_COUNT of the emitted block (-1: not yet defined)
    countBound,  \* the binding `let count` of the repeat form (-1: not yet bound)
    vs,          \* contents of the Vec
    hm,          \* contents of the HashMap
    cap,         \* capacity of the container
    reallocs,    \* reallocations of the container since its construction
    ctr,         \* the counter `tick` reads and increments
    ctr0,        \* its value when the invocation started
    trace,       \* what the emitted code has done so far, in order
    prior        \* the completed run of the same literal without trailing comma

vars == <<lit, inv, pc, body, argv, ELEM_COUNT, countBound, vs, hm, cap, reallocs,
          ctr, ctr0, trace, prior>>

Invocation(mac, toks) == [mac |-> mac, toks |-> toks]

SeqsUpTo(S, n) == UNION {[1..m -> S] : m \in 0..n}

Literals ==
    {Invocation("avec", JoinComma(es)) : es \in SeqsUpTo(ElemExprs, MaxLen)}
    \cup {Invocation("avec", <<e, Semi, c>>) : e \in ElemExprs, c \in CountExprs}
    \cup {Invocation("dict", JoinPairs(p[1], p[2])) :
            p \in UNION {[1..m -> ElemExprs] \X [1..m -> ElemExprs] : m \in 0..MaxPairs}}

Ev(ev, at, e, a, b) == [ev |-> ev, at |-> at, e |-> e, a |-> a, b |-> b]

Init ==
    /\ lit \in Literals
    /\ inv = lit
    /\ pc = "expand"
    /\ body = <<>>
    /\ argv = <<>>
    /\ ELEM_COUNT = -1
    /\ countBound = -1
    /\ vs = <<>>
    /\ hm = EmptyMap
    /\ cap = 0
    /\ reallocs = 0
    /\ ctr0 \in 0..MaxCtr
    /\ ctr = ctr0
    /\ trace = <<>>
    /\ prior = <<>>

\* ---- expansion ----------------------------------------------------------------
Emit(stmts) ==
    /\ body' = stmts
    /\ pc' = "run"
    /\ UNCHANGED <<lit, inv, argv, ELEM_COUNT, countBound, vs, hm, cap, reallocs,
                   ctr, ctr0, trace, prior>>

Reinvoke(toks) ==
    /\ inv' = Invocation(inv.mac, toks)
    /\ UNCHANGED <<lit, pc, body, argv, ELEM_COUNT, countBound, vs, hm, cap, reallocs,
                   ctr, ctr0, trace, prior>>

ExpandAvecList ==
    /\ pc = "expand"
    /\ inv.mac = "avec"
    /\ MatchSep(inv.toks)
    /\ Emit(AvecListBody(Bound(inv.toks)))

ExpandAvecTrailing ==
    /\ pc = "expand"
    /\ inv.mac = "avec"
    /\ ~MatchSep(inv.toks)
    /\ MatchTrail(inv.toks)
    /\ Reinvoke(AvecTrailing(Bound(inv.toks)))

ExpandAvecRepeat ==
    /\ pc = "expand"
    /\ inv.mac = "avec"
    /\ ~MatchSep(inv.toks)
    /\ ~MatchTrail(inv.toks)
    /\ MatchRepeat(inv.toks)
    /\ Emit(AvecRepeatBody(inv.toks[1], inv.toks[3]))

ExpandDict ==
    /\ pc = "expand"
    /\ inv.mac = "dict"
    /\ MatchPairsSep(inv.toks)
    /\ Emit(DictBody(Keys(inv.toks), Vals(inv.toks)))

ExpandDictTrailing ==
    /\ pc = "expand"
    /\ inv.mac = "dict"
    /\ ~MatchPairsSep(inv.toks)
    /\ MatchPairsTrail(inv.toks)
    /\ Reinvoke(DictTrailing(Keys(inv.toks), Vals(inv.toks)))

\* ---- execution of the emitted block ---------------------------------------------
Value(e) ==
    CASE e.k = "lit" -> e.v
      [] e.k = "tick" -> ctr
      [] e.k = "ELEM_COUNT" -> ELEM_COUNT
      [] e.k = "count" -> countBound
      [] OTHER -> 0

\* evaluate the next argument of the statement at the head of the block
EvalArg ==
    /\ pc = "run"
    /\ body # <<>>
    /\ Len(argv) < Len(Head(body).args)
    /\ LET e == Head(body).args[Len(argv) + 1] IN
         /\ argv' = Append(argv, Value(e))
         /\ ctr' = IF e.k = "tick" THEN ctr + 1 ELSE ctr
         /\ trace' = IF IsExpr(e)
                       THEN Append(trace, Ev("eval", Head(body).op, e, Value(e), 0))
                       ELSE trace
    /\ UNCHANGED <<lit, inv, pc, body, ELEM_COUNT, countBound, vs, hm, cap, reallocs,
                   ctr0, prior>>

Ready(op) ==
    /\ pc = "run"
    /\ body # <<>>
    /\ Head(body).op = op
    /\ Len(argv) = Len(Head(body).args)

Pop ==
    /\ body' = Tail(body)
    /\ argv' = <<>>

\* <[()]>::len(&[..])
ExecConst ==
    /\ Ready("const")
    /\ ELEM_COUNT' = Len(argv)
    /\ Pop
    /\ UNCHANGED <<lit, inv, pc, countBound, vs, hm, cap, reallocs, ctr, ctr0, trace, prior>>

ExecLetCount ==
    /\ Ready("let count")
    /\ countBound' = argv[1]
    /\ Pop
    /\ UNCHANGED <<lit, inv, pc, ELEM_COUNT, vs, hm, cap, reallocs, ctr, ctr0,
                   trace, prior>>

ExecVecWithCapacity ==
    /\ Ready("Vec::with_capacity")
    /\ cap' = VecWithCapacity(argv[1])
    /\ trace' = Append(trace, Ev("alloc", "Vec", Unit, argv[1], cap'))
    /\ vs' = <<>>
    /\ reallocs' = 0
    /\ Pop
    /\ UNCHANGED <<lit, inv, pc, ELEM_COUNT, countBound, hm, ctr, ctr0, prior>>

ExecHashMapWithCapacity ==
    /\ Ready("HashMap::with_capacity")
    /\ cap' = HashMapWithCapacity(argv[1])
    /\ trace' = Append(trace, Ev("alloc", "HashMap", Unit, argv[1], cap'))
    /\ hm' = EmptyMap
    /\ reallocs' = 0
    /\ Pop
    /\ UNCHANGED <<lit, inv, pc, ELEM_COUNT, countBound, vs, ctr, ctr0, prior>>

ExecPush ==
    /\ Ready("push")
    /\ cap' = Grown(cap, Len(vs), 1)
    /\ reallocs' = IF cap' = cap THEN reallocs ELSE reallocs + 1
    /\ vs' = VecPush(vs, argv[1])
    /\ trace' = Append(trace, Ev("push", "Vec", Unit, argv[1], Len(vs)))
    /\ Pop
    /\ UNCHANGED <<lit, inv, pc, ELEM_COUNT, countBound, hm, ctr, ctr0, prior>>

ExecResize ==
    /\ Ready("resize")
    /\ cap' = Grown(cap, Len(vs), argv[1] - Len(vs))
    /\ reallocs' = IF cap' = cap THEN reallocs ELSE reallocs + 1
    /\ vs' = VecResize(argv[1], argv[2])
    /\ trace' = Append(trace, Ev("resize", "Vec", Unit, argv[1], argv[2]))
    /\ Pop
    /\ UNCHANGED <<lit, inv, pc, ELEM_COUNT, countBound, hm, ctr, ctr0, prior>>

ExecInsert ==
    /\ Ready("insert")
    /\ cap' = Grown(cap, Cardinality(DOMAIN hm), 1)
    /\ reallocs' = IF cap' = cap THEN reallocs ELSE reallocs + 1
    /\ hm' = HashMapInsert(hm, argv[1], argv[2])
    /\ trace' = Append(trace, Ev("insert", "HashMap", Unit, argv[1], argv[2]))
    /\ Pop
    /\ UNCHANGED <<lit, inv, pc, ELEM_COUNT, countBound, vs, ctr, ctr0, prior>>

\* the block's value: the container
ExecRet ==
    /\ Ready("ret")
    /\ pc' = "done"
    /\ Pop
    /\ UNCHANGED <<lit, inv, ELEM_COUNT, countBound, vs, hm, cap, reallocs, ctr, ctr0,
                   trace, prior>>

\* ---- the same literal written with a trailing comma, from the same start ---------
HasTwin(l) ==
    /\ l.toks # <<>>
    /\ \/ l.mac = "avec" /\ MatchSep(l.toks)
       \/ l.mac = "dict" /\ MatchPairsSep(l.toks)

InvokeTwin ==
    /\ pc = "done"
    /\ prior = <<>>
    /\ HasTwin(lit)
    /\ prior' = <<[lit |-> lit, vs |-> vs, hm |-> hm, trace |-> trace, ctr |-> ctr]>>
    /\ lit' = Invocation(lit.mac, Append(lit.toks, Comma))
    /\ inv' = lit'
    /\ pc' = "expand"
    /\ body' = <<>>
    /\ argv' = <<>>
    /\ ELEM_COUNT' = -1
    /\ countBound' = -1
    /\ vs' = <<>>
    /\ hm' = EmptyMap
    /\ cap' = 0
    /\ reallocs' = 0
    /\ ctr' = ctr0
    /\ trace' = <<>>
    /\ UNCHANGED ctr0

Next ==
    \/ ExpandAvecList
    \/ ExpandAvecTrailing
    \/ ExpandAvecRepeat
    \/ ExpandDict
    \/ ExpandDictTrailing
    \/ EvalArg
    \/ ExecConst
    \/ ExecLetCount
    \/ ExecVecWithCapacity
    \/ ExecHashMapWithCapacity
    \/ ExecPush
    \/ ExecResize
    \/ ExecInsert
    \/ ExecRet
    \/ InvokeTwin

Spec == Init /\ [][Next]_vars

\* ---- vocabulary of the properties ------------------------------------------------
IsRepeat == lit.mac = "avec" /\ MatchRepeat(lit.toks)
IsList == lit.mac = "avec" /\ ~MatchRepeat(lit.toks)
IsDict == lit.mac = "dict"

\* the literal as written: its expressions in declaration order
Written == Bound(lit.toks)
N == Len(Written)
NPairs == Len(Keys(lit.toks))

IsEval(ev) == ev.ev = "eval"
IsAlloc(ev) == ev.ev = "alloc"
IsCountEval(ev) == ev.ev = "eval" /\ ev.at = "let count"
IsFillEval(ev) == ev.ev = "eval" /\ ev.at = "resize"

Evals == SelectSeq(trace, IsEval)
Allocs == SelectSeq(trace, IsAlloc)
CountEvals == SelectSeq(trace, IsCountEval)
FillEvals == SelectSeq(trace, IsFillEval)

\* the value the i-th written expression has when the expressions are evaluated
\* once each, in declaration order, starting from counter ctr0
ExpectedVal(i) ==
    IF Written[i].k = "lit"
      THEN Written[i].v
      ELSE ctr0 + Cardinality({j \in 1..(i - 1) : Written[j] = Tick})

KeyVal(i) == Evals[2 * i - 1].a
ValVal(i) == Evals[2 * i].a
LastOcc(i) == CHOOSE j \in 1..NPairs :
                /\ KeyVal(j) = KeyVal(i)
                /\ \A h \in 1..NPairs : KeyVal(h) = KeyVal(i) => h <= j
HasDup == \E i, j \in 1..NPairs : i # j /\ KeyVal(i) = KeyVal(j)

Stored == IF IsDict THEN Cardinality(DOMAIN hm) ELSE Len(vs)
CountConst == IF IsRepeat THEN countBound ELSE IF IsDict THEN NPairs ELSE N

\* ---- C1 ------------------------------------------------------------------------
\* C1: the list form avec![e1, ..., eN] (with or without trailing comma) yields a
\* sequence whose length is exactly N, for every N >= 0.
TheoremC1 == (pc = "done" /\ IsList) => Len(vs) = N

WitnessC1 == pc = "done" /\ IsList /\ N >= 2 /\ Len(vs) = N /\ Tick \in {Written[i] : i \in 1..N}

\* ---- C2 ------------------------------------------------------------------------
CountStepDone ==
    /\ pc = "run"
    /\ body # <<>>
    /\ Head(body).op \in {"Vec::with_capacity", "HashMap::with_capacity"}
    /\ argv = <<>>

\* C2: count![e1, ..., eN] is N for every N >= 0 and evaluates none of the ei:
\* right after the counting step nothing has been evaluated and the counter is
\* untouched, and no evaluation of a caller's expression ever belongs to counting.
TheoremC2 ==
    (IsList \/ IsDict) =>
        /\ ELEM_COUNT # -1 => ELEM_COUNT = (IF IsDict THEN NPairs ELSE N)
        /\ CountStepDone => ELEM_COUNT # -1 /\ trace = <<>> /\ ctr = ctr0
        /\ \A i \in 1..Len(trace) : trace[i].at # "const"

WitnessC2 ==
    /\ IsList
    /\ CountStepDone
    /\ ELEM_COUNT = 2
    /\ Written[1] = Tick

\* ---- C3 ------------------------------------------------------------------------
\* C3: avec![e; n] yields a sequence of length n whose every element is the value
\* of the one evaluation of e; e is evaluated exactly once.
TheoremC3 ==
    (pc = "done" /\ IsRepeat) =>
        /\ Len(CountEvals) = 1
        /\ Len(vs) = CountEvals[1].a
        /\ Len(FillEvals) = 1
        /\ FillEvals[1].e = lit.toks[1]
        /\ \A i \in 1..Len(vs) : vs[i] = FillEvals[1].a
        /\ Len(SelectSeq(Evals, LAMBDA ev : ev.at # "let count")) = 1

WitnessC3 == pc = "done" /\ IsRepeat /\ lit.toks[1] = Tick /\ Len(vs) >= 2

\* ---- C4 ------------------------------------------------------------------------
\* C4: in avec![e; count] the count expression is evaluated exactly once, before
\* the allocation and before any population; capacity request and fill length
\* both are the one bound value.
TheoremC4 ==
    IsRepeat =>
        /\ Len(CountEvals) <= 1
        /\ \A i \in 1..Len(trace) :
             trace[i].ev \in {"alloc", "resize", "push"} =>
                /\ \E j \in 1..(i - 1) : IsCountEval(trace[j])
                /\ trace[i].a = CountEvals[1].a
                /\ countBound = CountEvals[1].a
        /\ pc = "done" =>
             /\ Len(CountEvals) = 1
             /\ CountEvals[1].e = lit.toks[3]
             /\ Len(Allocs) = 1
             /\ Len(vs) = CountEvals[1].a

WitnessC4 ==
    /\ pc = "done"
    /\ IsRepeat
    /\ lit.toks[3] = Tick
    /\ ctr0 = 1
    /\ Len(vs) = 1

\* ---- C5 ------------------------------------------------------------------------
\* C5: with duplicate keys the map's length is the number of distinct keys and
\* each key looks up the value of its last occurrence in declaration order.
TheoremC5 ==
    (pc = "done" /\ IsDict) =>
        /\ Len(Evals) = 2 * NPairs
        /\ HasDup =>
             /\ Cardinality(DOMAIN hm) = Cardinality({KeyVal(i) : i \in 1..NPairs})
             /\ Cardinality(DOMAIN hm) < NPairs
             /\ \A i \in 1..NPairs :
                  /\ Evals[2 * i - 1].e = Keys(lit.toks)[i]
                  /\ KeyVal(i) \in DOMAIN hm
                  /\ hm[KeyVal(i)] = ValVal(LastOcc(i))

WitnessC5 ==
    /\ pc = "done"
    /\ IsDict
    /\ Len(Evals) = 2 * NPairs
    /\ \E i, j \in 1..NPairs :
         i < j /\ KeyVal(i) = KeyVal(j) /\ ValVal(i) # ValVal(j) /\ hm[KeyVal(i)] = ValVal(j)

\* ---- C6 ------------------------------------------------------------------------
\* C6: with N >= 0 pairs and all keys distinct the map has length N and every key
\* ki looks up its paired value vi.
TheoremC6 ==
    (pc = "done" /\ IsDict) =>
        /\ Len(Evals) = 2 * NPairs
        /\ ~HasDup =>
             /\ Cardinality(DOMAIN hm) = NPairs
             /\ \A i \in 1..NPairs :
                  /\ Evals[2 * i - 1].e = Keys(lit.toks)[i]
                  /\ Evals[2 * i].e = Vals(lit.toks)[i]
                  /\ KeyVal(i) \in DOMAIN hm
                  /\ hm[KeyVal(i)] = ValVal(i)

WitnessC6 ==
    /\ pc = "done"
    /\ IsDict
    /\ NPairs = 2
    /\ Len(Evals) = 2 * NPairs
    /\ ~HasDup
    /\ Cardinality(DOMAIN hm) = 2

\* ---- C7 ------------------------------------------------------------------------
\* C7: the trailing-comma form yields the same container as the form without it,
\* with the same expressions evaluated in the same order to the same values.
TheoremC7 ==
    (pc = "done" /\ prior # <<>>) =>
        /\ vs = prior[1].vs
        /\ hm = prior[1].hm
        /\ Evals = SelectSeq(prior[1].trace, IsEval)
        /\ ctr = prior[1].ctr

WitnessC7 ==
    /\ pc = "done"
    /\ prior # <<>>
    /\ IsList
    /\ lit.toks[Len(lit.toks)] = Comma
    /\ Len(vs) >= 2
    /\ Tick \in {Written[i] : i \in 1..N}

\* ---- C8 ------------------------------------------------------------------------
\* C8 as stated: the allocated capacity equals the Count Constant (list, map) or
\* the bound repeat count (repeat).
OriginalC8 == Len(Allocs) = 1 => cap = CountConst

\* C8, amended: the capacity requested at construction equals the Count Constant
\* or the bound repeat count and the capacity allocated is at least that; it is
\* fixed at construction, nothing is stored before construction, no reallocation
\* occurs during population and the number of stored elements never exceeds it.
TheoremC8 ==
    /\ Len(Allocs) <= 1
    /\ Len(Allocs) = 0 => Stored = 0 /\ pc # "done"
    /\ Len(Allocs) = 1 =>
         /\ Allocs[1].a = CountConst
         /\ Allocs[1].b >= CountConst
         /\ cap = Allocs[1].b
         /\ reallocs = 0
         /\ Stored <= cap

WitnessC8 ==
    /\ pc = "done"
    /\ Len(Allocs) = 1
    /\ Stored >= 2
    /\ Stored = CountConst
    /\ cap > CountConst

\* ---- C9 ------------------------------------------------------------------------
\* C9: a list literal evaluates e1, ..., eN once each in that order, ei stored at
\* index i-1; a map literal evaluates k1, v1, ..., kN, vN once each in that order,
\* each pair inserted before the next pair's key is evaluated.
TheoremC9 ==
    /\ (pc = "done" /\ IsList) =>
         /\ Len(trace) = 2 * N + 1
         /\ trace[1].ev = "alloc"
         /\ \A i \in 1..N :
              /\ trace[2 * i] = Ev("eval", "push", Written[i], ExpectedVal(i), 0)
              /\ trace[2 * i + 1] = Ev("push", "Vec", Unit, ExpectedVal(i), i - 1)
              /\ vs[i] = ExpectedVal(i)
    /\ (pc = "done" /\ IsDict) =>
         /\ Len(trace) = 3 * NPairs + 1
         /\ trace[1].ev = "alloc"
         /\ \A i \in 1..NPairs :
              /\ trace[3 * i - 1] =
                   Ev("eval", "insert", Keys(lit.toks)[i], ExpectedVal(2 * i - 1), 0)
              /\ trace[3 * i] =
                   Ev("eval", "insert", Vals(lit.toks)[i], ExpectedVal(2 * i), 0)
              /\ trace[3 * i + 1] =
                   Ev("insert", "HashMap", Unit, ExpectedVal(2 * i - 1), ExpectedVal(2 * i))

WitnessC9 ==
    /\ pc = "done"
    /\ IsDict
    /\ NPairs = 2
    /\ Vals(lit.toks)[1] = Tick
    /\ Keys(lit.toks)[2] = Tick
    /\ Len(trace) = 7

\* ---- C10 -----------------------------------------------------------------------
\* C10: avec![e; count] evaluates count first, then allocates, then evaluates e
\* once as the fill value, also when count is 0.
TheoremC10 ==
    (pc = "done" /\ IsRepeat) =>
        /\ Len(trace) = 4
        /\ trace[1].ev = "eval" /\ trace[1].at = "let count" /\ trace[1].e = lit.toks[3]
        /\ trace[2].ev = "alloc"
        /\ trace[3].ev = "eval" /\ trace[3].at = "resize" /\ trace[3].e = lit.toks[1]
        /\ trace[4].ev = "resize"
        /\ lit.toks[3] = Tick => trace[1].a = ctr0
        /\ lit.toks[1] = Tick =>
             trace[3].a = (IF lit.toks[3] = Tick THEN ctr0 + 1 ELSE ctr0)

WitnessC10 ==
    /\ pc = "done"
    /\ IsRepeat
    /\ lit.toks[1] = Tick
    /\ lit.toks[3] = Tick
    /\ ctr0 = 0
    /\ vs = <<>>
    /\ ctr = 2
=============================================================================
